---- MODULE Spec2Model ----
(***************************************************************************)
(* Ledger state machines of the Stylus token contracts:                    *)
(*   ERC20Token   (erc20-stylus/contract/src/lib.rs)                       *)
(*   ERC721Token  (erc721-stylus/contract/src/lib.rs)                      *)
(*   SuperPositionNFT (erc721-stylus/contract/erc721/src/lib.rs)           *)
(* One behaviour follows one deployed contract (variable `contract`); its  *)
(* storage fields are the variables below.  Every public entry point is    *)
(* one action; its body is a function from the storage before the call to  *)
(* the returned Result (`res`) and the storage after it (`s`), written in  *)
(* the order of the statements of the source: a write made before an early *)
(* `return Err` is part of the storage the function leaves behind.         *)
(***************************************************************************)
EXTENDS Integers, Sequences, FiniteSets, TLC

\* ------------------------------------------------------------------ bounds
\* Stand-in for U256::MAX: U256 is the range 0..UMax, arithmetic is modulo UMax + 1.
UMax == 3
\* Highest token id the model lets mint / mint_batch assign (caps next_token_id).
MaxTokenId == 2

U256 == 0..UMax
\* usize::MAX of the wasm32 target is below U256::MAX.
USizeMax == UMax - 1

\* Address::ZERO and the accounts that can be msg::sender().
Zero == 0
Account == {1, 2}
Address == {Zero} \cup Account

\* Strings passed to initialize / set_base_uri.
Names == {"Token"}
Symbols == {"TKN"}
Decimals == {18}
BaseUris == {"ipfs://a/", "ipfs://b/"}

\* ------------------------------------------------------------------ state
VARIABLES
    contract,            \* which contract this deployment is
    name, symbol, decimals, base_uri,
    total_supply, max_supply, next_token_id,
    balances,            \* address -> U256
    allowances,          \* ERC-20: owner -> spender -> U256
    owners,              \* ERC-721: token id -> address
    token_approvals,     \* ERC-721: token id -> address
    operator_approvals,  \* ERC-721: owner -> operator -> bool
    owned_tokens,        \* ERC-721: owner -> position -> token id
    owned_tokens_index,  \* ERC-721: token id -> position
    owner, paused, initialized,
    art_contract_address \* SuperPositionNFT

storage == <<name, symbol, decimals, base_uri, total_supply, max_supply, next_token_id,
             balances, allowances, owners, token_approvals, operator_approvals,
             owned_tokens, owned_tokens_index, owner, paused, initialized,
             art_contract_address>>

vars == <<contract, storage>>

\* The storage of the contract as one value (`self` of the Rust methods).
self ==
    [name |-> name, symbol |-> symbol, decimals |-> decimals, base_uri |-> base_uri,
     total_supply |-> total_supply, max_supply |-> max_supply,
     next_token_id |-> next_token_id, balances |-> balances, allowances |-> allowances,
     owners |-> owners, token_approvals |-> token_approvals,
     operator_approvals |-> operator_approvals, owned_tokens |-> owned_tokens,
     owned_tokens_index |-> owned_tokens_index, owner |-> owner, paused |-> paused,
     initialized |-> initialized, art_contract_address |-> art_contract_address]

\* A call that returned `r.res` leaves the storage `r.s`.
Return(r) ==
    /\ name' = r.s.name
    /\ symbol' = r.s.symbol
    /\ decimals' = r.s.decimals
    /\ base_uri' = r.s.base_uri
    /\ total_supply' = r.s.total_supply
    /\ max_supply' = r.s.max_supply
    /\ next_token_id' = r.s.next_token_id
    /\ balances' = r.s.balances
    /\ allowances' = r.s.allowances
    /\ owners' = r.s.owners
    /\ token_approvals' = r.s.token_approvals
    /\ operator_approvals' = r.s.operator_approvals
    /\ owned_tokens' = r.s.owned_tokens
    /\ owned_tokens_index' = r.s.owned_tokens_index
    /\ owner' = r.s.owner
    /\ paused' = r.s.paused
    /\ initialized' = r.s.initialized
    /\ art_contract_address' = r.s.art_contract_address
    /\ UNCHANGED contract

\* ------------------------------------------------------------------ results
Ok == [kind |-> "Ok"]
OkTrue == [kind |-> "Ok", value |-> TRUE]
OkTokenId(id) == [kind |-> "Ok", token_id |-> id]
OkTokenIds(ids) == [kind |-> "Ok", token_ids |-> ids]
ErrStr(m) == [kind |-> "Err", msg |-> m]
InsufficientBalance(f, a, r) ==
    [kind |-> "InsufficientBalance", from |-> f, available |-> a, required |-> r]
InsufficientAllowance(sp, a, r) ==
    [kind |-> "InsufficientAllowance", spender |-> sp, available |-> a, required |-> r]
InvalidReceiver(a) == [kind |-> "InvalidReceiver", receiver |-> a]
InvalidSender(a) == [kind |-> "InvalidSender", sender |-> a]
UnauthorizedAccount(a) == [kind |-> "UnauthorizedAccount", account |-> a]
EnforcedPause == [kind |-> "EnforcedPause"]
ExpectedPause == [kind |-> "ExpectedPause"]

IsOk(r) == r.kind = "Ok"
Ret(r, s) == [res |-> r, s |-> s]

\* U256 `+` and `-` (ruint's Add / Sub are wrapping_add / wrapping_sub).
Add(a, b) == (a + b) % (UMax + 1)
Sub(a, b) == (a + (UMax + 1) - b) % (UMax + 1)

\* ================================================================== ERC20Token
\* ---- internal functions
ERC20_require_owner(s, sender) ==
    IF sender # s.owner THEN UnauthorizedAccount(sender) ELSE Ok

ERC20_require_not_paused(s) == IF s.paused THEN EnforcedPause ELSE Ok

ERC20_require_paused(s) == IF ~s.paused THEN ExpectedPause ELSE Ok

ERC20_transfer_internal(s, from, to, value) ==
    IF from = Zero THEN Ret(InvalidSender(from), s)
    ELSE IF to = Zero THEN Ret(InvalidReceiver(to), s)
    ELSE LET from_balance == s.balances[from] IN
         IF from_balance < value
         THEN Ret(InsufficientBalance(from, from_balance, value), s)
         ELSE LET s1 == [s EXCEPT !.balances[from] = Sub(from_balance, value)]
                  to_balance == s1.balances[to]
                  s2 == [s1 EXCEPT !.balances[to] = Add(to_balance, value)]
              IN Ret(Ok, s2)

ERC20_approve_internal(s, own, spender, value) ==
    IF own = Zero THEN Ret(InvalidSender(own), s)
    ELSE IF spender = Zero THEN Ret(InvalidReceiver(spender), s)
    ELSE Ret(Ok, [s EXCEPT !.allowances[own][spender] = value])

\* spend_allowance without the `current_allowance != U256::MAX` test: the sentinel is
\* decremented like any other allowance.
ERC20_spend_allowance_NoSentinel(s, own, spender, value) ==
    LET current_allowance == s.allowances[own][spender] IN
    IF current_allowance < value
    THEN Ret(InsufficientAllowance(spender, current_allowance, value), s)
    ELSE Ret(Ok, [s EXCEPT !.allowances[own][spender] =
                               Sub(current_allowance, value)])

ERC20_spend_allowance(s, own, spender, value) ==
    LET current_allowance == s.allowances[own][spender] IN
    IF current_allowance # UMax
    THEN IF current_allowance < value
         THEN Ret(InsufficientAllowance(spender, current_allowance, value), s)
         ELSE Ret(Ok, [s EXCEPT !.allowances[own][spender] =
                                    Sub(current_allowance, value)])
    ELSE Ret(Ok, s)

ERC20_mint_internal(s, to, amount) ==
    IF to = Zero THEN Ret(InvalidReceiver(to), s)
    ELSE LET s1 == [s EXCEPT !.total_supply = Add(s.total_supply, amount)]
             balance == s1.balances[to]
         IN Ret(Ok, [s1 EXCEPT !.balances[to] = Add(balance, amount)])

ERC20_burn_internal(s, from, amount) ==
    IF from = Zero THEN Ret(InvalidSender(from), s)
    ELSE LET balance == s.balances[from] IN
         IF balance < amount
         THEN Ret(InsufficientBalance(from, balance, amount), s)
         ELSE LET s1 == [s EXCEPT !.balances[from] = Sub(balance, amount)]
              IN Ret(Ok, [s1 EXCEPT !.total_supply = Sub(s1.total_supply, amount)])

\* ---- public functions
ERC20_initialize(s, nm, sym, dec, initial_supply, own) ==
    IF s.initialized THEN Ret(ErrStr("Already initialized"), s)
    ELSE LET s1 == [s EXCEPT !.name = nm, !.symbol = sym, !.decimals = dec,
                             !.owner = own, !.paused = FALSE, !.initialized = TRUE]
         IN IF initial_supply > 0
            THEN LET m == ERC20_mint_internal(s1, own, initial_supply)
                 IN IF IsOk(m.res) THEN Ret(Ok, m.s) ELSE m
            ELSE Ret(Ok, s1)

ERC20_transfer(s, sender, to, value) ==
    LET p == ERC20_require_not_paused(s) IN
    IF ~IsOk(p) THEN Ret(p, s)
    ELSE LET t == ERC20_transfer_internal(s, sender, to, value)
         IN IF IsOk(t.res) THEN Ret(OkTrue, t.s) ELSE t

ERC20_approve(s, sender, spender, value) ==
    LET a == ERC20_approve_internal(s, sender, spender, value)
    IN IF IsOk(a.res) THEN Ret(OkTrue, a.s) ELSE a

ERC20_transfer_from(s, sender, from, to, value) ==
    LET p == ERC20_require_not_paused(s) IN
    IF ~IsOk(p) THEN Ret(p, s)
    ELSE LET a == ERC20_spend_allowance(s, from, sender, value) IN
         IF ~IsOk(a.res) THEN a
         ELSE LET t == ERC20_transfer_internal(a.s, from, to, value)
              IN IF IsOk(t.res) THEN Ret(OkTrue, t.s) ELSE t

ERC20_increase_allowance(s, sender, spender, added_value) ==
    LET current_allowance == s.allowances[sender][spender]
        a == ERC20_approve_internal(s, sender, spender,
                                    Add(current_allowance, added_value))
    IN IF IsOk(a.res) THEN Ret(OkTrue, a.s) ELSE a

ERC20_decrease_allowance(s, sender, spender, subtracted_value) ==
    LET current_allowance == s.allowances[sender][spender] IN
    IF current_allowance < subtracted_value
    THEN Ret(InsufficientAllowance(spender, current_allowance, subtracted_value), s)
    ELSE LET a == ERC20_approve_internal(s, sender, spender,
                                         Sub(current_allowance, subtracted_value))
         IN IF IsOk(a.res) THEN Ret(OkTrue, a.s) ELSE a

\* mint without require_owner: any caller may mint.
ERC20_mint_NoOwnerCheck(s, sender, to, amount) ==
    ERC20_mint_internal(s, to, amount)

ERC20_mint(s, sender, to, amount) ==
    LET o == ERC20_require_owner(s, sender) IN
    IF ~IsOk(o) THEN Ret(o, s)
    ELSE ERC20_mint_internal(s, to, amount)

ERC20_burn(s, sender, amount) ==
    LET p == ERC20_require_not_paused(s) IN
    IF ~IsOk(p) THEN Ret(p, s)
    ELSE ERC20_burn_internal(s, sender, amount)

\* burn_from without spend_allowance: the allowance is neither tested nor reduced.
ERC20_burn_from_NoSpend(s, sender, from, amount) ==
    LET p == ERC20_require_not_paused(s) IN
    IF ~IsOk(p) THEN Ret(p, s)
    ELSE ERC20_burn_internal(s, from, amount)

ERC20_burn_from(s, sender, from, amount) ==
    LET p == ERC20_require_not_paused(s) IN
    IF ~IsOk(p) THEN Ret(p, s)
    ELSE LET a == ERC20_spend_allowance(s, from, sender, amount) IN
         IF ~IsOk(a.res) THEN a
         ELSE ERC20_burn_internal(a.s, from, amount)

\* pause without require_not_paused: pausing a paused token succeeds.
ERC20_pause_NoPauseCheck(s, sender) ==
    LET o == ERC20_require_owner(s, sender) IN
    IF ~IsOk(o) THEN Ret(o, s)
    ELSE Ret(Ok, [s EXCEPT !.paused = TRUE])

ERC20_pause(s, sender) ==
    LET o == ERC20_require_owner(s, sender) IN
    IF ~IsOk(o) THEN Ret(o, s)
    ELSE LET p == ERC20_require_not_paused(s) IN
         IF ~IsOk(p) THEN Ret(p, s)
         ELSE Ret(Ok, [s EXCEPT !.paused = TRUE])

\* unpause without require_paused: unpausing a running token succeeds.
ERC20_unpause_NoPauseCheck(s, sender) ==
    LET o == ERC20_require_owner(s, sender) IN
    IF ~IsOk(o) THEN Ret(o, s)
    ELSE Ret(Ok, [s EXCEPT !.paused = FALSE])

ERC20_unpause(s, sender) ==
    LET o == ERC20_require_owner(s, sender) IN
    IF ~IsOk(o) THEN Ret(o, s)
    ELSE LET p == ERC20_require_paused(s) IN
         IF ~IsOk(p) THEN Ret(p, s)
         ELSE Ret(Ok, [s EXCEPT !.paused = FALSE])

\* transfer_ownership without require_owner: any caller may take the ownership.
ERC20_transfer_ownership_NoOwnerCheck(s, sender, new_owner) ==
    IF new_owner = Zero THEN Ret(ErrStr("New owner is zero address"), s)
    ELSE Ret(Ok, [s EXCEPT !.owner = new_owner])

ERC20_transfer_ownership(s, sender, new_owner) ==
    LET o == ERC20_require_owner(s, sender) IN
    IF ~IsOk(o) THEN Ret(o, s)
    ELSE IF new_owner = Zero THEN Ret(ErrStr("New owner is zero address"), s)
    ELSE Ret(Ok, [s EXCEPT !.owner = new_owner])

ERC20_renounce_ownership(s, sender) ==
    LET o == ERC20_require_owner(s, sender) IN
    IF ~IsOk(o) THEN Ret(o, s)
    ELSE Ret(Ok, [s EXCEPT !.owner = Zero])

\* ================================================================== ERC721Token
ERC721NonexistentToken(t) == [kind |-> "ERC721NonexistentToken", tokenId |-> t]
ERC721IncorrectOwner(f, t, o) ==
    [kind |-> "ERC721IncorrectOwner", sender |-> f, tokenId |-> t, owner |-> o]
ERC721InvalidReceiver(a) == [kind |-> "ERC721InvalidReceiver", receiver |-> a]
ERC721InsufficientApproval(op, t) ==
    [kind |-> "ERC721InsufficientApproval", operator |-> op, tokenId |-> t]
ERC721InvalidApprover(a) == [kind |-> "ERC721InvalidApprover", approver |-> a]
ERC721InvalidOperator(a) == [kind |-> "ERC721InvalidOperator", operator |-> a]
MaxSupplyReached(m) == [kind |-> "MaxSupplyReached", maxSupply |-> m]

\* ---- views and internal functions
ERC721_owner_of(s, token_id) ==
    LET own == s.owners[token_id] IN
    IF own = Zero THEN [res |-> ERC721NonexistentToken(token_id), owner |-> Zero]
    ELSE [res |-> Ok, owner |-> own]

ERC721_is_approved_for_all(s, own, operator) == s.operator_approvals[own][operator]

ERC721_token_by_index(s, index) ==
    IF index >= s.total_supply
    THEN [res |-> ErrStr("Index out of bounds"), token_id |-> 0]
    ELSE [res |-> Ok, token_id |-> Add(index, 1)]

ERC721_token_of_owner_by_index(s, own, index) ==
    LET balance == s.balances[own] IN
    IF index >= balance
    THEN [res |-> ErrStr("Index out of bounds"), token_id |-> 0]
    ELSE [res |-> Ok, token_id |-> s.owned_tokens[own][index]]

ERC721_require_owner(s, sender) ==
    IF sender # s.owner THEN UnauthorizedAccount(sender) ELSE Ok

ERC721_require_not_paused(s) == IF s.paused THEN EnforcedPause ELSE Ok

ERC721_require_paused(s) == IF ~s.paused THEN ExpectedPause ELSE Ok

\* Ok(bool) as [res, value]; the `?` on owner_of propagates ERC721NonexistentToken.
ERC721_is_approved_or_owner(s, spender, token_id) ==
    LET o == ERC721_owner_of(s, token_id) IN
    IF ~IsOk(o.res) THEN [res |-> o.res, value |-> FALSE]
    ELSE [res |-> Ok,
          value |-> \/ spender = o.owner
                    \/ ERC721_is_approved_for_all(s, o.owner, spender)
                    \/ s.token_approvals[token_id] = spender]

ERC721_add_token_to_owner_enumeration(s, own, token_id) ==
    LET length == s.balances[own]
        s1 == [s EXCEPT !.owned_tokens[own][Sub(length, 1)] = token_id]
    IN [s1 EXCEPT !.owned_tokens_index[token_id] = Sub(length, 1)]

\* remove_token_from_owner_enumeration without the swap: only the last slot is popped.
ERC721_remove_token_from_owner_enumeration_NoSwap(s, own, token_id) ==
    LET last_index == s.balances[own]
        s2 == [s EXCEPT !.owned_tokens[own][last_index] = 0]
    IN [s2 EXCEPT !.owned_tokens_index[token_id] = 0]

ERC721_remove_token_from_owner_enumeration(s, own, token_id) ==
    LET last_index == s.balances[own]
        token_index == s.owned_tokens_index[token_id]
        s1 == IF token_index # last_index
              THEN LET last_token_id == s.owned_tokens[own][last_index]
                       m == [s EXCEPT !.owned_tokens[own][token_index] = last_token_id]
                   IN [m EXCEPT !.owned_tokens_index[last_token_id] = token_index]
              ELSE s
        s2 == [s1 EXCEPT !.owned_tokens[own][last_index] = 0]
    IN [s2 EXCEPT !.owned_tokens_index[token_id] = 0]

\* transfer_internal that does not clear token_approvals[token_id].
ERC721_transfer_internal_KeepApproval(s, from, to, token_id) ==
    LET o == ERC721_owner_of(s, token_id) IN
    IF ~IsOk(o.res) THEN Ret(o.res, s)
    ELSE IF o.owner # from
    THEN Ret(ERC721IncorrectOwner(from, token_id, o.owner), s)
    ELSE IF to = Zero THEN Ret(ERC721InvalidReceiver(to), s)
    ELSE LET from_balance == s.balances[from]
             s2 == [s EXCEPT !.balances[from] = Sub(from_balance, 1)]
             to_balance == s2.balances[to]
             s3 == [s2 EXCEPT !.balances[to] = Add(to_balance, 1)]
             s4 == [s3 EXCEPT !.owners[token_id] = to]
             s5 == ERC721_remove_token_from_owner_enumeration(s4, from, token_id)
             s6 == ERC721_add_token_to_owner_enumeration(s5, to, token_id)
         IN Ret(Ok, s6)

ERC721_transfer_internal(s, from, to, token_id) ==
    LET o == ERC721_owner_of(s, token_id) IN
    IF ~IsOk(o.res) THEN Ret(o.res, s)
    ELSE IF o.owner # from
    THEN Ret(ERC721IncorrectOwner(from, token_id, o.owner), s)
    ELSE IF to = Zero THEN Ret(ERC721InvalidReceiver(to), s)
    ELSE LET s1 == [s EXCEPT !.token_approvals[token_id] = Zero]
             from_balance == s1.balances[from]
             s2 == [s1 EXCEPT !.balances[from] = Sub(from_balance, 1)]
             to_balance == s2.balances[to]
             s3 == [s2 EXCEPT !.balances[to] = Add(to_balance, 1)]
             s4 == [s3 EXCEPT !.owners[token_id] = to]
             s5 == ERC721_remove_token_from_owner_enumeration(s4, from, token_id)
             s6 == ERC721_add_token_to_owner_enumeration(s5, to, token_id)
         IN Ret(Ok, s6)

ERC721_mint_internal(s, to, token_id) ==
    IF to = Zero THEN Ret(ERC721InvalidReceiver(to), s)
    ELSE LET s1 == [s EXCEPT !.owners[token_id] = to]
             to_balance == s1.balances[to]
             s2 == [s1 EXCEPT !.balances[to] = Add(to_balance, 1)]
             s3 == [s2 EXCEPT !.total_supply = Add(s2.total_supply, 1)]
         IN Ret(Ok, ERC721_add_token_to_owner_enumeration(s3, to, token_id))

\* burn_internal that does not decrement total_supply.
ERC721_burn_internal_KeepSupply(s, token_id) ==
    LET o == ERC721_owner_of(s, token_id) IN
    IF ~IsOk(o.res) THEN Ret(o.res, s)
    ELSE LET s1 == [s EXCEPT !.token_approvals[token_id] = Zero]
             balance == s1.balances[o.owner]
             s2 == [s1 EXCEPT !.balances[o.owner] = Sub(balance, 1)]
             s4 == [s2 EXCEPT !.owners[token_id] = Zero]
         IN Ret(Ok, ERC721_remove_token_from_owner_enumeration(s4, o.owner, token_id))

\* burn_internal that leaves the token's single-slot approval in place.
ERC721_burn_internal_KeepApproval(s, token_id) ==
    LET o == ERC721_owner_of(s, token_id) IN
    IF ~IsOk(o.res) THEN Ret(o.res, s)
    ELSE LET balance == s.balances[o.owner]
             s2 == [s EXCEPT !.balances[o.owner] = Sub(balance, 1)]
             s3 == [s2 EXCEPT !.total_supply = Sub(s2.total_supply, 1)]
             s4 == [s3 EXCEPT !.owners[token_id] = Zero]
         IN Ret(Ok, ERC721_remove_token_from_owner_enumeration(s4, o.owner, token_id))

ERC721_burn_internal(s, token_id) ==
    LET o == ERC721_owner_of(s, token_id) IN
    IF ~IsOk(o.res) THEN Ret(o.res, s)
    ELSE LET s1 == [s EXCEPT !.token_approvals[token_id] = Zero]
             balance == s1.balances[o.owner]
             s2 == [s1 EXCEPT !.balances[o.owner] = Sub(balance, 1)]
             s3 == [s2 EXCEPT !.total_supply = Sub(s2.total_supply, 1)]
             s4 == [s3 EXCEPT !.owners[token_id] = Zero]
         IN Ret(Ok, ERC721_remove_token_from_owner_enumeration(s4, o.owner, token_id))

\* ---- public functions
\* initialize without the `initialized` latch: it can be called again.
ERC721_initialize_NoLatch(s, nm, sym, uri, max, own) ==
    Ret(Ok, [s EXCEPT !.name = nm, !.symbol = sym, !.base_uri = uri,
                      !.max_supply = max, !.owner = own, !.paused = FALSE,
                      !.next_token_id = 1, !.initialized = TRUE])

ERC721_initialize(s, nm, sym, uri, max, own) ==
    IF s.initialized THEN Ret(ErrStr("Already initialized"), s)
    ELSE Ret(Ok, [s EXCEPT !.name = nm, !.symbol = sym, !.base_uri = uri,
                           !.max_supply = max, !.owner = own, !.paused = FALSE,
                           !.next_token_id = 1, !.initialized = TRUE])

\* approve that also accepts the holder of the token's single-slot approval.
ERC721_approve_ApprovedMay(s, sender, to, token_id) ==
    LET o == ERC721_owner_of(s, token_id) IN
    IF ~IsOk(o.res) THEN Ret(o.res, s)
    ELSE IF to = o.owner THEN Ret(ErrStr("Cannot approve to current owner"), s)
    ELSE IF /\ sender # o.owner
            /\ ~ERC721_is_approved_for_all(s, o.owner, sender)
            /\ s.token_approvals[token_id] # sender
    THEN Ret(ERC721InvalidApprover(sender), s)
    ELSE Ret(Ok, [s EXCEPT !.token_approvals[token_id] = to])

ERC721_approve(s, sender, to, token_id) ==
    LET o == ERC721_owner_of(s, token_id) IN
    IF ~IsOk(o.res) THEN Ret(o.res, s)
    ELSE IF to = o.owner THEN Ret(ErrStr("Cannot approve to current owner"), s)
    ELSE IF sender # o.owner /\ ~ERC721_is_approved_for_all(s, o.owner, sender)
    THEN Ret(ERC721InvalidApprover(sender), s)
    ELSE Ret(Ok, [s EXCEPT !.token_approvals[token_id] = to])

\* set_approval_for_all that accepts every operator.
ERC721_set_approval_for_all_NoChecks(s, sender, operator, approved) ==
    Ret(Ok, [s EXCEPT !.operator_approvals[sender][operator] = approved])

ERC721_set_approval_for_all(s, sender, operator, approved) ==
    IF operator = Zero THEN Ret(ERC721InvalidOperator(operator), s)
    ELSE IF operator = sender THEN Ret(ErrStr("Cannot set approval for self"), s)
    ELSE Ret(Ok, [s EXCEPT !.operator_approvals[sender][operator] = approved])

ERC721_transfer_from(s, sender, from, to, token_id) ==
    LET p == ERC721_require_not_paused(s) IN
    IF ~IsOk(p) THEN Ret(p, s)
    ELSE LET a == ERC721_is_approved_or_owner(s, sender, token_id) IN
         IF ~IsOk(a.res) THEN Ret(a.res, s)
         ELSE IF ~a.value THEN Ret(ERC721InsufficientApproval(sender, token_id), s)
         ELSE ERC721_transfer_internal(s, from, to, token_id)

\* safe_transfer_from delegates to transfer_from: no receiver check is made.
ERC721_safe_transfer_from(s, sender, from, to, token_id) ==
    ERC721_transfer_from(s, sender, from, to, token_id)

\* safe_transfer_from_with_data ignores _data.
ERC721_safe_transfer_from_with_data(s, sender, from, to, token_id, data) ==
    ERC721_safe_transfer_from(s, sender, from, to, token_id)

\* mint with the two guards exchanged: require_not_paused before require_owner.
ERC721_mint_PauseFirst(s, sender, to) ==
    LET p == ERC721_require_not_paused(s) IN
    IF ~IsOk(p) THEN Ret(p, s)
    ELSE LET o == ERC721_require_owner(s, sender) IN
    IF ~IsOk(o) THEN Ret(o, s)
    ELSE LET max == s.max_supply
             current_supply == s.total_supply
         IN IF max > 0 /\ current_supply >= max THEN Ret(MaxSupplyReached(max), s)
            ELSE LET token_id == s.next_token_id
                     s1 == [s EXCEPT !.next_token_id = Add(token_id, 1)]
                     m == ERC721_mint_internal(s1, to, token_id)
                 IN IF IsOk(m.res) THEN Ret(OkTokenId(token_id), m.s) ELSE m

\* mint that leaves next_token_id as it was: the next mint takes the same id.
ERC721_mint_ReuseId(s, sender, to) ==
    LET o == ERC721_require_owner(s, sender) IN
    IF ~IsOk(o) THEN Ret(o, s)
    ELSE LET p == ERC721_require_not_paused(s) IN
    IF ~IsOk(p) THEN Ret(p, s)
    ELSE LET max == s.max_supply
             current_supply == s.total_supply
         IN IF max > 0 /\ current_supply >= max THEN Ret(MaxSupplyReached(max), s)
            ELSE LET token_id == s.next_token_id
                     m == ERC721_mint_internal(s, to, token_id)
                 IN IF IsOk(m.res) THEN Ret(OkTokenId(token_id), m.s) ELSE m

ERC721_mint(s, sender, to) ==
    LET o == ERC721_require_owner(s, sender) IN
    IF ~IsOk(o) THEN Ret(o, s)
    ELSE LET p == ERC721_require_not_paused(s) IN
    IF ~IsOk(p) THEN Ret(p, s)
    ELSE LET max == s.max_supply
             current_supply == s.total_supply
         IN IF max > 0 /\ current_supply >= max THEN Ret(MaxSupplyReached(max), s)
            ELSE LET token_id == s.next_token_id
                     s1 == [s EXCEPT !.next_token_id = Add(token_id, 1)]
                     m == ERC721_mint_internal(s1, to, token_id)
                 IN IF IsOk(m.res) THEN Ret(OkTokenId(token_id), m.s) ELSE m

\* The body of `for _ in 0..count_usize`, n iterations left.
RECURSIVE ERC721_mint_batch_loop(_, _, _, _)
ERC721_mint_batch_loop(s, to, n, token_ids) ==
    IF n = 0 THEN Ret(OkTokenIds(token_ids), s)
    ELSE LET token_id == s.next_token_id
             s1 == [s EXCEPT !.next_token_id = Add(token_id, 1)]
             m == ERC721_mint_internal(s1, to, token_id)
         IN IF IsOk(m.res)
            THEN ERC721_mint_batch_loop(m.s, to, n - 1, Append(token_ids, token_id))
            ELSE m

\* mint_batch without the max_supply test.
ERC721_mint_batch_NoCap(s, sender, to, count) ==
    LET o == ERC721_require_owner(s, sender) IN
    IF ~IsOk(o) THEN Ret(o, s)
    ELSE LET p == ERC721_require_not_paused(s) IN
    IF ~IsOk(p) THEN Ret(p, s)
    ELSE LET count_usize == IF count <= USizeMax THEN count ELSE 0
         IN ERC721_mint_batch_loop(s, to, count_usize, <<>>)

ERC721_mint_batch(s, sender, to, count) ==
    LET o == ERC721_require_owner(s, sender) IN
    IF ~IsOk(o) THEN Ret(o, s)
    ELSE LET p == ERC721_require_not_paused(s) IN
    IF ~IsOk(p) THEN Ret(p, s)
    ELSE LET max == s.max_supply
             current_supply == s.total_supply
         IN IF max > 0 /\ Add(current_supply, count) > max
            THEN Ret(MaxSupplyReached(max), s)
            ELSE LET count_usize == IF count <= USizeMax THEN count ELSE 0
                 IN ERC721_mint_batch_loop(s, to, count_usize, <<>>)

\* burn without the is_approved_or_owner test: any caller may burn any token.
ERC721_burn_NoApprovalCheck(s, sender, token_id) ==
    LET p == ERC721_require_not_paused(s) IN
    IF ~IsOk(p) THEN Ret(p, s)
    ELSE ERC721_burn_internal(s, token_id)

ERC721_burn(s, sender, token_id) ==
    LET p == ERC721_require_not_paused(s) IN
    IF ~IsOk(p) THEN Ret(p, s)
    ELSE LET a == ERC721_is_approved_or_owner(s, sender, token_id) IN
         IF ~IsOk(a.res) THEN Ret(a.res, s)
         ELSE IF ~a.value THEN Ret(ERC721InsufficientApproval(sender, token_id), s)
         ELSE ERC721_burn_internal(s, token_id)

ERC721_pause(s, sender) ==
    LET o == ERC721_require_owner(s, sender) IN
    IF ~IsOk(o) THEN Ret(o, s)
    ELSE LET p == ERC721_require_not_paused(s) IN
         IF ~IsOk(p) THEN Ret(p, s)
         ELSE Ret(Ok, [s EXCEPT !.paused = TRUE])

\* unpause that any caller may make.
ERC721_unpause_NoOwnerCheck(s, sender) ==
    LET p == ERC721_require_paused(s) IN
    IF ~IsOk(p) THEN Ret(p, s)
    ELSE Ret(Ok, [s EXCEPT !.paused = FALSE])

ERC721_unpause(s, sender) ==
    LET o == ERC721_require_owner(s, sender) IN
    IF ~IsOk(o) THEN Ret(o, s)
    ELSE LET p == ERC721_require_paused(s) IN
         IF ~IsOk(p) THEN Ret(p, s)
         ELSE Ret(Ok, [s EXCEPT !.paused = FALSE])

ERC721_set_base_uri(s, sender, new_base_uri) ==
    LET o == ERC721_require_owner(s, sender) IN
    IF ~IsOk(o) THEN Ret(o, s)
    ELSE Ret(Ok, [s EXCEPT !.base_uri = new_base_uri])

\* transfer_ownership without the zero-address test.
ERC721_transfer_ownership_AcceptZero(s, sender, new_owner) ==
    LET o == ERC721_require_owner(s, sender) IN
    IF ~IsOk(o) THEN Ret(o, s)
    ELSE Ret(Ok, [s EXCEPT !.owner = new_owner])

ERC721_transfer_ownership(s, sender, new_owner) ==
    LET o == ERC721_require_owner(s, sender) IN
    IF ~IsOk(o) THEN Ret(o, s)
    ELSE IF new_owner = Zero THEN Ret(ErrStr("New owner is zero address"), s)
    ELSE Ret(Ok, [s EXCEPT !.owner = new_owner])

ERC721_renounce_ownership(s, sender) ==
    LET o == ERC721_require_owner(s, sender) IN
    IF ~IsOk(o) THEN Ret(o, s)
    ELSE Ret(Ok, [s EXCEPT !.owner = Zero])

\* ================================================================== SuperPositionNFT
AlreadyInitialized == [kind |-> "AlreadyInitialized"]

SuperPositionNFT_initialize(s, art_contract) ==
    IF s.art_contract_address # Zero THEN Ret(AlreadyInitialized, s)
    ELSE Ret(Ok, [s EXCEPT !.art_contract_address = art_contract])

\* ================================================================== the state machine
Contracts == {"ERC20Token", "ERC721Token", "SuperPositionNFT"}

\* Storage of a freshly deployed contract: every slot is zero.
Init ==
    /\ contract \in Contracts
    /\ name = "" /\ symbol = "" /\ decimals = 0 /\ base_uri = ""
    /\ total_supply = 0 /\ max_supply = 0 /\ next_token_id = 0
    /\ balances = [a \in Address |-> 0]
    /\ allowances = [a \in Address |-> [b \in Address |-> 0]]
    /\ owners = [t \in U256 |-> Zero]
    /\ token_approvals = [t \in U256 |-> Zero]
    /\ operator_approvals = [a \in Address |-> [b \in Address |-> FALSE]]
    /\ owned_tokens = [a \in Address |-> [p \in U256 |-> 0]]
    /\ owned_tokens_index = [t \in U256 |-> 0]
    /\ owner = Zero /\ paused = FALSE /\ initialized = FALSE
    /\ art_contract_address = Zero

IsERC20 == contract = "ERC20Token"
IsERC721 == contract = "ERC721Token"

\* ---- ERC20Token entry points
Initialize20(supply, own) ==
    /\ IsERC20
    /\ \E nm \in Names, sym \in Symbols, dec \in Decimals :
          Return(ERC20_initialize(self, nm, sym, dec, supply, own))

Transfer20(sender, to, value) ==
    IsERC20 /\ Return(ERC20_transfer(self, sender, to, value))

Approve20(sender, spender, value) ==
    IsERC20 /\ Return(ERC20_approve(self, sender, spender, value))

TransferFrom20(sender, from, to, value) ==
    IsERC20 /\ Return(ERC20_transfer_from(self, sender, from, to, value))

IncreaseAllowance20(sender, spender, value) ==
    IsERC20 /\ Return(ERC20_increase_allowance(self, sender, spender, value))

DecreaseAllowance20(sender, spender, value) ==
    IsERC20 /\ Return(ERC20_decrease_allowance(self, sender, spender, value))

Mint20(sender, to, amount) ==
    IsERC20 /\ Return(ERC20_mint(self, sender, to, amount))

Burn20(sender, amount) ==
    IsERC20 /\ Return(ERC20_burn(self, sender, amount))

BurnFrom20(sender, from, amount) ==
    IsERC20 /\ Return(ERC20_burn_from(self, sender, from, amount))

Pause20(sender) == IsERC20 /\ Return(ERC20_pause(self, sender))

Unpause20(sender) == IsERC20 /\ Return(ERC20_unpause(self, sender))

TransferOwnership20(sender, new_owner) ==
    IsERC20 /\ Return(ERC20_transfer_ownership(self, sender, new_owner))

RenounceOwnership20(sender) ==
    IsERC20 /\ Return(ERC20_renounce_ownership(self, sender))

\* ---- ERC721Token entry points
Initialize721(max, own) ==
    /\ IsERC721
    /\ \E nm \in Names, sym \in Symbols, uri \in BaseUris :
          Return(ERC721_initialize(self, nm, sym, uri, max, own))

Approve721(sender, to, token_id) ==
    IsERC721 /\ Return(ERC721_approve(self, sender, to, token_id))

SetApprovalForAll721(sender, operator, approved) ==
    IsERC721 /\ Return(ERC721_set_approval_for_all(self, sender, operator, approved))

TransferFrom721(sender, from, to, token_id) ==
    IsERC721 /\ Return(ERC721_transfer_from(self, sender, from, to, token_id))

SafeTransferFrom721(sender, from, to, token_id) ==
    IsERC721 /\ Return(ERC721_safe_transfer_from(self, sender, from, to, token_id))

SafeTransferFromWithData721(sender, from, to, token_id, data) ==
    IsERC721 /\ Return(ERC721_safe_transfer_from_with_data(self, sender, from, to,
                                                           token_id, data))

\* No call assigns a token id above MaxTokenId (next_token_id never wraps).
WithinTokenCap(r) ==
    /\ r.s.next_token_id >= next_token_id
    /\ r.s.next_token_id <= MaxTokenId + 1

Mint721(sender, to) ==
    /\ IsERC721
    /\ WithinTokenCap(ERC721_mint(self, sender, to))
    /\ Return(ERC721_mint(self, sender, to))

MintBatch721(sender, to, count) ==
    /\ IsERC721
    /\ WithinTokenCap(ERC721_mint_batch(self, sender, to, count))
    /\ Return(ERC721_mint_batch(self, sender, to, count))

Burn721(sender, token_id) ==
    IsERC721 /\ Return(ERC721_burn(self, sender, token_id))

Pause721(sender) == IsERC721 /\ Return(ERC721_pause(self, sender))

Unpause721(sender) == IsERC721 /\ Return(ERC721_unpause(self, sender))

SetBaseUri721(sender, uri) ==
    IsERC721 /\ Return(ERC721_set_base_uri(self, sender, uri))

TransferOwnership721(sender, new_owner) ==
    IsERC721 /\ Return(ERC721_transfer_ownership(self, sender, new_owner))

RenounceOwnership721(sender) ==
    IsERC721 /\ Return(ERC721_renounce_ownership(self, sender))

\* ---- SuperPositionNFT entry point
InitializeNFT(art_contract) ==
    /\ contract = "SuperPositionNFT"
    /\ Return(SuperPositionNFT_initialize(self, art_contract))

\* max_supply arguments of ERC721Token::initialize: unlimited, or a cap below the id cap.
MaxSupplies == {0, MaxTokenId - 1}

\* The spenders an account approves: any address but itself.
Spenders(c) == Address \ {c}
Datas == {<<>>}

Next20 ==
    \/ \E v \in U256, o \in Address : Initialize20(v, o)
    \/ \E c \in Account, to \in Address, v \in U256 : Transfer20(c, to, v)
    \/ \E c \in Account : \E sp \in Spenders(c), v \in U256 : Approve20(c, sp, v)
    \/ \E c \in Account, f \in Address, to \in Address, v \in U256 :
          TransferFrom20(c, f, to, v)
    \/ \E c \in Account : \E sp \in Spenders(c), v \in U256 : IncreaseAllowance20(c, sp, v)
    \/ \E c \in Account : \E sp \in Spenders(c), v \in U256 : DecreaseAllowance20(c, sp, v)
    \/ \E c \in Account, to \in Address, v \in U256 : Mint20(c, to, v)
    \/ \E c \in Account, v \in U256 : Burn20(c, v)
    \/ \E c \in Account, f \in Address, v \in U256 : BurnFrom20(c, f, v)
    \/ \E c \in Account : Pause20(c)
    \/ \E c \in Account : Unpause20(c)
    \/ \E c \in Account, n \in Address : TransferOwnership20(c, n)
    \/ \E c \in Account : RenounceOwnership20(c)

Next721 ==
    \/ \E m \in MaxSupplies, o \in Address : Initialize721(m, o)
    \/ \E c \in Account, to \in Address, t \in U256 : Approve721(c, to, t)
    \/ \E c \in Account, op \in Address, b \in BOOLEAN : SetApprovalForAll721(c, op, b)
    \/ \E c \in Account, f \in Address, to \in Address, t \in U256 :
          TransferFrom721(c, f, to, t)
    \/ \E c \in Account, f \in Address, to \in Address, t \in U256 :
          SafeTransferFrom721(c, f, to, t)
    \/ \E c \in Account, f \in Address, to \in Address, t \in U256, d \in Datas :
          SafeTransferFromWithData721(c, f, to, t, d)
    \/ \E c \in Account, to \in Address : Mint721(c, to)
    \/ \E c \in Account, to \in Address, n \in U256 : MintBatch721(c, to, n)
    \/ \E c \in Account, t \in U256 : Burn721(c, t)
    \/ \E c \in Account : Pause721(c)
    \/ \E c \in Account : Unpause721(c)
    \/ \E c \in Account, u \in BaseUris : SetBaseUri721(c, u)
    \/ \E c \in Account, n \in Address : TransferOwnership721(c, n)
    \/ \E c \in Account : RenounceOwnership721(c)

NextNFT == \E a \in Address : InitializeNFT(a)

Next == Next20 \/ Next721 \/ NextNFT

\* Any of the three contracts.
Spec == Init /\ [][Next]_vars

\* The ERC20Token deployment alone, and the ERC721Token deployment alone.
Init20 == Init /\ IsERC20
Init721 == Init /\ IsERC721
Spec20 == Init20 /\ [][Next20]_vars
Spec721 == Init721 /\ [][Next721]_vars

\* ================================================================== every call
\* One call of a public function in the current state: the function, msg::sender(),
\* the arguments (0 / "" where the function has none) and what it returns and leaves.
Call(op, c, f, to, v, u, out) ==
    [op |-> op, sender |-> c, from |-> f, to |-> to, value |-> v, uri |-> u, out |-> out]

\* Every call of an ERC20Token entry point, by every account with every argument.
Calls20 ==
    {Call("initialize", c, 0, o, v, "", ERC20_initialize(self, "Token", "TKN", 18, v, o)) :
        c \in Account, o \in Address, v \in U256}
    \cup {Call("transfer", c, 0, to, v, "", ERC20_transfer(self, c, to, v)) :
        c \in Account, to \in Address, v \in U256}
    \cup {Call("approve", c, 0, sp, v, "", ERC20_approve(self, c, sp, v)) :
        c \in Account, sp \in Address, v \in U256}
    \cup {Call("transfer_from", c, f, to, v, "", ERC20_transfer_from(self, c, f, to, v)) :
        c \in Account, f \in Address, to \in Address, v \in U256}
    \cup {Call("increase_allowance", c, 0, sp, v, "",
               ERC20_increase_allowance(self, c, sp, v)) :
        c \in Account, sp \in Address, v \in U256}
    \cup {Call("decrease_allowance", c, 0, sp, v, "",
               ERC20_decrease_allowance(self, c, sp, v)) :
        c \in Account, sp \in Address, v \in U256}
    \cup {Call("mint", c, 0, to, v, "", ERC20_mint(self, c, to, v)) :
        c \in Account, to \in Address, v \in U256}
    \cup {Call("burn", c, 0, 0, v, "", ERC20_burn(self, c, v)) :
        c \in Account, v \in U256}
    \cup {Call("burn_from", c, f, 0, v, "", ERC20_burn_from(self, c, f, v)) :
        c \in Account, f \in Address, v \in U256}
    \cup {Call("pause", c, 0, 0, 0, "", ERC20_pause(self, c)) : c \in Account}
    \cup {Call("unpause", c, 0, 0, 0, "", ERC20_unpause(self, c)) : c \in Account}
    \cup {Call("transfer_ownership", c, 0, n, 0, "", ERC20_transfer_ownership(self, c, n)) :
        c \in Account, n \in Address}
    \cup {Call("renounce_ownership", c, 0, 0, 0, "", ERC20_renounce_ownership(self, c)) :
        c \in Account}

\* Every call of an ERC721Token entry point (mint and mint_batch within the id cap).
Calls721 ==
    {Call("initialize", c, 0, o, m, u, ERC721_initialize(self, "Token", "TKN", u, m, o)) :
        c \in Account, o \in Address, m \in U256, u \in BaseUris}
    \cup {Call("approve", c, 0, to, t, "", ERC721_approve(self, c, to, t)) :
        c \in Account, to \in Address, t \in U256}
    \cup {Call("set_approval_for_all", c, 0, op, IF b THEN 1 ELSE 0, "",
               ERC721_set_approval_for_all(self, c, op, b)) :
        c \in Account, op \in Address, b \in BOOLEAN}
    \cup {Call("transfer_from", c, f, to, t, "", ERC721_transfer_from(self, c, f, to, t)) :
        c \in Account, f \in Address, to \in Address, t \in U256}
    \cup {Call("safe_transfer_from", c, f, to, t, "",
               ERC721_safe_transfer_from(self, c, f, to, t)) :
        c \in Account, f \in Address, to \in Address, t \in U256}
    \cup {Call("safe_transfer_from_with_data", c, f, to, t, "",
               ERC721_safe_transfer_from_with_data(self, c, f, to, t, d)) :
        c \in Account, f \in Address, to \in Address, t \in U256, d \in Datas}
    \cup {k \in {Call("mint", c, 0, to, 0, "", ERC721_mint(self, c, to)) :
                    c \in Account, to \in Address} : WithinTokenCap(k.out)}
    \cup {k \in {Call("mint_batch", c, 0, to, n, "", ERC721_mint_batch(self, c, to, n)) :
                    c \in Account, to \in Address, n \in U256} : WithinTokenCap(k.out)}
    \cup {Call("burn", c, 0, 0, t, "", ERC721_burn(self, c, t)) :
        c \in Account, t \in U256}
    \cup {Call("pause", c, 0, 0, 0, "", ERC721_pause(self, c)) : c \in Account}
    \cup {Call("unpause", c, 0, 0, 0, "", ERC721_unpause(self, c)) : c \in Account}
    \cup {Call("set_base_uri", c, 0, 0, 0, u, ERC721_set_base_uri(self, c, u)) :
        c \in Account, u \in BaseUris}
    \cup {Call("transfer_ownership", c, 0, n, 0, "", ERC721_transfer_ownership(self, c, n)) :
        c \in Account, n \in Address}
    \cup {Call("renounce_ownership", c, 0, 0, 0, "", ERC721_renounce_ownership(self, c)) :
        c \in Account}

\* Every call of an entry point of the deployed contract.
Calls ==
    IF IsERC20 THEN Calls20
    ELSE IF IsERC721 THEN Calls721
    ELSE {Call("initialize", c, 0, a, 0, "", SuperPositionNFT_initialize(self, a)) :
             c \in Account, a \in Address}

Failed(k) == ~IsOk(k.out.res)

\* ================================================================== properties
RECURSIVE SumOver(_, _)
SumOver(f, S) ==
    IF S = {} THEN 0
    ELSE LET x == CHOOSE y \in S : TRUE IN f[x] + SumOver(f, S \ {x})

\* C1: ERC-20: in every reachable state total_supply equals the sum of the balances
\* of all addresses.
C1_Conservation == IsERC20 => total_supply = SumOver(balances, Address)

\* The slots of the owners' enumerations, <<owner, position>> with position < balance,
\* that hold token t.
Slots(t) ==
    {sl \in Address \X U256 : sl[2] < balances[sl[1]] /\ owned_tokens[sl[1]][sl[2]] = t}

\* C2: ERC-721: for every owner and every position p < balances[owner], the token t
\* at owned_tokens[owner][p] has owners[t] = owner and owned_tokens_index[t] = p.
C2_EnumerationConsistent ==
    IsERC721 =>
        \A a \in Address : \A p \in U256 :
            p < balances[a] =>
                LET t == owned_tokens[a][p]
                IN owners[t] = a /\ owned_tokens_index[t] = p

\* C3: ERC-721: a token id has a non-zero owner if and only if it occurs in exactly
\* one enumeration slot below a balance, and that slot is its owner's.
C3_ExistenceBijection ==
    IsERC721 =>
        \A t \in U256 :
            /\ owners[t] # Zero <=> Cardinality(Slots(t)) = 1
            /\ owners[t] # Zero => \A sl \in Slots(t) : sl[1] = owners[t]

\* C4: every call that returns an error leaves every storage field as it was before
\* the call (all three contracts, every entry point, caller and argument).
C4_ErrorLeavesStateUnchanged == \A k \in Calls : Failed(k) => k.out.s = self

\* The account whose balance a call draws on, and the allowance it spends.
Source(k) == IF k.op \in {"transfer", "burn"} THEN k.sender ELSE k.from
Moves(k) == k.op \in {"transfer", "transfer_from", "burn", "burn_from"}
Spends(k) == k.op \in {"transfer_from", "burn_from"}

\* C5: ERC-20: no subtraction underflows: a transfer, transfer_from, burn or burn_from
\* of more than the source balance fails (with InsufficientBalance{from, available,
\* required} once the pause, address and allowance checks before it have passed) and
\* leaves the balances; a transfer_from, burn_from or decrease_allowance of more than
\* a finite allowance fails with InsufficientAllowance{spender, available, required}
\* and leaves the allowances; and a burn that succeeds takes no more than total_supply.
C5_NoUnderflow ==
    IsERC20 =>
        \A k \in Calls20 :
            /\ (Moves(k) /\ k.value > balances[Source(k)]) =>
                  /\ Failed(k)
                  /\ k.out.s.balances = balances
                  /\ ( /\ ~paused
                       /\ Source(k) # Zero
                       /\ k.op \in {"transfer", "transfer_from"} => k.to # Zero
                       /\ Spends(k) => \/ allowances[k.from][k.sender] = UMax
                                       \/ k.value <= allowances[k.from][k.sender] )
                     => k.out.res = InsufficientBalance(Source(k), balances[Source(k)],
                                                        k.value)
            /\ ( /\ Spends(k)
                 /\ allowances[k.from][k.sender] # UMax
                 /\ k.value > allowances[k.from][k.sender] ) =>
                  /\ Failed(k)
                  /\ k.out.s.allowances = allowances
                  /\ ~paused => k.out.res = InsufficientAllowance(
                                    k.sender, allowances[k.from][k.sender], k.value)
            /\ (k.op = "decrease_allowance" /\ k.value > allowances[k.sender][k.to]) =>
                  k.out = Ret(InsufficientAllowance(k.to, allowances[k.sender][k.to],
                                                    k.value), self)
            /\ (k.op \in {"burn", "burn_from"} /\ IsOk(k.out.res)) =>
                  k.value <= total_supply

\* C6: ERC-20: every addition is checked: a mint or an initialize whose amount takes
\* total_supply or the recipient's balance past U256::MAX, and an increase_allowance
\* whose sum passes it, fails and stores nothing.
C6_CheckedAddition ==
    IsERC20 =>
        \A k \in Calls20 :
            /\ ( /\ k.op \in {"mint", "initialize"}
                 /\ \/ total_supply + k.value > UMax
                    \/ balances[k.to] + k.value > UMax ) =>
                  Failed(k) /\ k.out.s = self
            /\ ( /\ k.op = "increase_allowance"
                 /\ allowances[k.sender][k.to] + k.value > UMax ) =>
                  Failed(k) /\ k.out.s = self

\* C7: ERC-20: while allowances[o][sp] is the unlimited sentinel U256::MAX, no call
\* but an approve, increase_allowance or decrease_allowance by o for sp changes it; in
\* particular transfer_from and burn_from by sp on o, of any value, leave it.
C7_UnlimitedAllowanceKept ==
    IsERC20 =>
        LET calls == Calls20 IN
        \A o \in Address, sp \in Address :
            allowances[o][sp] = UMax =>
                \A k \in calls :
                    \/ /\ k.op \in {"approve", "increase_allowance", "decrease_allowance"}
                       /\ k.sender = o
                       /\ k.to = sp
                    \/ k.out.s.allowances[o][sp] = UMax

\* A spend of a positive value against the sentinel has succeeded.
C7_Witness ==
    /\ IsERC20
    /\ \E k \in Calls20 :
          /\ Spends(k) /\ k.value > 0 /\ IsOk(k.out.res)
          /\ allowances[k.from][k.sender] = UMax

\* The calls pause gates before anything else, and the ERC-721 mints.
GatedFirst(k) ==
    \/ IsERC20 /\ k.op \in {"transfer", "transfer_from", "burn", "burn_from"}
    \/ IsERC721 /\ k.op \in {"transfer_from", "safe_transfer_from",
                            "safe_transfer_from_with_data", "burn"}
GatedMint(k) == IsERC721 /\ k.op \in {"mint", "mint_batch"}

\* C8 (as amended): whenever paused is true, every ERC-20 transfer, transfer_from, burn
\* and burn_from and every ERC-721 transfer_from (the safe variants too) and burn fails with EnforcedPause for
\* every caller and argument; ERC-721 mint and mint_batch fail with EnforcedPause when
\* the caller is the owner and with UnauthorizedAccount{caller} otherwise; none of them
\* changes any state.
C8_PauseGating ==
    paused =>
        \A k \in Calls :
            /\ GatedFirst(k) => k.out = Ret(EnforcedPause, self)
            /\ GatedMint(k) =>
                  k.out = Ret(IF k.sender = owner THEN EnforcedPause
                              ELSE UnauthorizedAccount(k.sender), self)

\* C8 as stated: the ERC-721 mints too fail with EnforcedPause for every caller.
C8_Original ==
    paused =>
        \A k \in Calls :
            (GatedFirst(k) \/ GatedMint(k)) => k.out = Ret(EnforcedPause, self)

\* A paused ERC-721 collection whose owner's mint is refused with EnforcedPause while a
\* holder's transfer is refused too.
C8_Witness ==
    /\ paused /\ IsERC721
    /\ \E k \in Calls : k.op = "mint" /\ k.sender = owner /\ k.out.res = EnforcedPause
    /\ \E k \in Calls : /\ k.op = "transfer_from" /\ owners[k.value] = k.sender
                        /\ k.from = k.sender /\ k.to # Zero
                        /\ k.out.res = EnforcedPause

\* C9 (as amended): whenever paused is true, pause() and the transfer/burn family
\* (ERC-20 transfer, transfer_from, burn, burn_from; ERC-721 transfer_from, burn, mint,
\* mint_batch) fail, and unpause() by the owner is the only call that changes paused;
\* the other mutating entry points are not gated by pause: ERC-20 mint by the owner,
\* approve and increase_allowance for a non-zero spender, decrease_allowance within
\* the allowance, transfer_ownership to a non-zero address and renounce_ownership by
\* the owner, ERC-721 approve by the token's owner, set_base_uri by the contract owner
\* and set_approval_for_all for another non-zero operator all succeed.
C9_OnlyUnpauseLiftsPause ==
    paused =>
        \A k \in Calls :
            /\ (GatedFirst(k) \/ GatedMint(k) \/ k.op = "pause") => Failed(k)
            /\ k.op # "unpause" => k.out.s.paused
            /\ (k.op = "unpause" /\ IsOk(k.out.res)) =>
                  k.sender = owner /\ ~k.out.s.paused
            /\ ( \/ IsERC20 /\ k.op = "mint" /\ k.sender = owner /\ k.to # Zero
                 \/ IsERC20 /\ k.op \in {"approve", "increase_allowance"} /\ k.to # Zero
                 \/ /\ IsERC20 /\ k.op = "decrease_allowance" /\ k.to # Zero
                    /\ k.value <= allowances[k.sender][k.to]
                 \/ /\ IsERC721 /\ k.op = "approve"
                    /\ owners[k.value] = k.sender /\ k.to # k.sender
                 \/ k.op = "transfer_ownership" /\ k.sender = owner /\ k.to # Zero
                 \/ k.op = "renounce_ownership" /\ k.sender = owner
                 \/ IsERC721 /\ k.op = "set_base_uri" /\ k.sender = owner
                 \/ /\ IsERC721 /\ k.op = "set_approval_for_all"
                    /\ k.to \notin {Zero, k.sender} ) =>
                  IsOk(k.out.res)

\* C9 as stated: while paused every entry point but unpause fails.
C9_Original == paused => \A k \in Calls : k.op # "unpause" => Failed(k)

\* A paused ERC-20 token whose owner's mint succeeds and changes the ledger.
C9_Witness ==
    /\ paused /\ IsERC20
    /\ \E k \in Calls : k.op = "mint" /\ IsOk(k.out.res) /\ k.out.s # self
    /\ \E k \in Calls : k.op = "unpause" /\ IsOk(k.out.res)

\* C10: pause() by the owner while paused fails with EnforcedPause and unpause() by
\* the owner while not paused fails with ExpectedPause, both leaving the state as it
\* was; a pause() that succeeds finds paused false and sets it, an unpause() that
\* succeeds finds paused true and clears it, and no other call changes paused, so
\* successful pause and unpause calls alternate.
C10_PauseUnpauseAlternate ==
    (IsERC20 \/ IsERC721) =>
        \A k \in Calls :
            /\ (k.op = "pause" /\ k.sender = owner) =>
                  IF paused THEN k.out = Ret(EnforcedPause, self)
                  ELSE k.out = Ret(Ok, [self EXCEPT !.paused = TRUE])
            /\ (k.op = "unpause" /\ k.sender = owner) =>
                  IF ~paused THEN k.out = Ret(ExpectedPause, self)
                  ELSE k.out = Ret(Ok, [self EXCEPT !.paused = FALSE])
            /\ (k.op = "pause" /\ IsOk(k.out.res)) => ~paused /\ k.out.s.paused
            /\ (k.op = "unpause" /\ IsOk(k.out.res)) => paused /\ ~k.out.s.paused
            /\ k.op \notin {"pause", "unpause"} => k.out.s.paused = paused

\* The owner's second pause() is refused while the contract is paused.
C10_Witness ==
    /\ paused
    /\ \E k \in Calls :
          k.op = "pause" /\ k.sender = owner /\ k.out = Ret(EnforcedPause, self)
    /\ \E k \in Calls : k.op = "unpause" /\ k.sender = owner /\ IsOk(k.out.res)

\* The entry points that begin with require_owner.
OwnerGated(k) ==
    \/ /\ IsERC20
       /\ k.op \in {"mint", "pause", "unpause", "transfer_ownership",
                    "renounce_ownership"}
    \/ /\ IsERC721
       /\ k.op \in {"mint", "mint_batch", "pause", "unpause", "set_base_uri",
                    "transfer_ownership", "renounce_ownership"}

\* C11: every owner-gated operation (ERC-20 mint, pause, unpause, transfer_ownership,
\* renounce_ownership; ERC-721 mint, mint_batch, pause, unpause, set_base_uri,
\* transfer_ownership, renounce_ownership) called by an address other than the stored
\* owner fails with UnauthorizedAccount{account: caller}, whatever the pause flag and
\* the arguments, and leaves every state variable as it was.
C11_OwnerGating ==
    \A k \in Calls :
        (OwnerGated(k) /\ k.sender # owner) =>
            k.out = Ret(UnauthorizedAccount(k.sender), self)

\* A paused collection with tokens and an owner, where another account's mint_batch,
\* unpause and set_base_uri are refused.
C11_Witness ==
    /\ IsERC721 /\ paused /\ total_supply > 0 /\ owner # Zero
    /\ \A op \in {"mint_batch", "unpause", "set_base_uri"} :
          \E k \in Calls :
              /\ k.op = op /\ k.sender # owner
              /\ k.out.res = UnauthorizedAccount(k.sender)

\* C12: once ownership is renounced the owner is the zero address for good: a
\* successful renounce_ownership() leaves an initialized contract with owner zero, and
\* from an initialized state with owner zero every call (initialize included) leaves
\* owner zero and initialized true, and every owner-gated call by any non-zero caller
\* fails with UnauthorizedAccount.
C12_RenounceIsPermanent ==
    \A k \in Calls :
        /\ (k.op = "renounce_ownership" /\ IsOk(k.out.res)) =>
              k.out.s.owner = Zero /\ k.out.s.initialized
        /\ (initialized /\ owner = Zero) =>
              /\ k.out.s.owner = Zero
              /\ k.out.s.initialized
              /\ OwnerGated(k) => k.out.res = UnauthorizedAccount(k.sender)
              /\ k.op = "initialize" => Failed(k)

\* A token whose supply was minted by an owner that has since renounced: initialize
\* and the owner-gated calls are refused.
C12_Witness ==
    /\ IsERC20 /\ initialized /\ owner = Zero /\ total_supply > 0
    /\ \E k \in Calls : k.op = "initialize" /\ k.to # Zero /\ Failed(k)
    /\ \E k \in Calls : k.op = "transfer_ownership" /\ k.to # Zero /\ Failed(k)

\* The owner's mint of a collection that is at its cap.
MintAtCap(k) ==
    /\ k.op = "mint" /\ k.sender = owner
    /\ max_supply > 0 /\ total_supply >= max_supply

\* C13 (as amended): ERC-721: when max_supply > 0, total_supply <= max_supply in every
\* reachable state; while the collection is not paused, mint by the owner with
\* total_supply >= max_supply, and mint_batch by the owner with total_supply + count >
\* max_supply, fail with MaxSupplyReached{maxSupply: max_supply} and change nothing
\* (while it is paused the owner's mint fails with EnforcedPause instead); and when
\* max_supply == 0 no mint or mint_batch fails with MaxSupplyReached.
C13_MaxSupply ==
    IsERC721 =>
        /\ max_supply > 0 => total_supply <= max_supply
        /\ \A k \in Calls721 :
              /\ (MintAtCap(k) /\ ~paused) =>
                    k.out = Ret(MaxSupplyReached(max_supply), self)
              /\ (MintAtCap(k) /\ paused) => k.out = Ret(EnforcedPause, self)
              /\ ( /\ k.op = "mint_batch" /\ k.sender = owner /\ ~paused
                   /\ max_supply > 0
                   /\ total_supply + k.value > max_supply
                   /\ total_supply + k.value <= UMax ) =>
                    k.out = Ret(MaxSupplyReached(max_supply), self)
              /\ (k.op \in {"mint", "mint_batch"} /\ max_supply = 0) =>
                    k.out.res.kind # "MaxSupplyReached"

\* C13 as stated: the owner's mint at the cap fails with MaxSupplyReached in every
\* state.
C13_Original ==
    IsERC721 =>
        /\ max_supply > 0 => total_supply <= max_supply
        /\ \A k \in Calls721 :
              /\ MintAtCap(k) => k.out = Ret(MaxSupplyReached(max_supply), self)
              /\ (k.op \in {"mint", "mint_batch"} /\ max_supply = 0) =>
                    k.out.res.kind # "MaxSupplyReached"

\* A running collection minted up to its cap, whose owner's next mint is refused.
C13_Witness ==
    /\ IsERC721 /\ ~paused /\ max_supply > 0 /\ total_supply = max_supply
    /\ \E k \in Calls721 : MintAtCap(k) /\ k.out.res = MaxSupplyReached(max_supply)

\* C14: ERC-721: next_token_id never decreases; every token with a non-zero owner has
\* an id in [1, next_token_id); and an id below next_token_id that has no owner (a
\* burned id among them) gets no owner from any call, so no id is assigned twice.
C14_IdsNeverReused ==
    IsERC721 =>
        /\ \A t \in U256 : owners[t] # Zero => (1 <= t /\ t < next_token_id)
        /\ \A k \in Calls721 :
              /\ k.out.s.next_token_id >= next_token_id
              /\ \A t \in U256 :
                    (t < next_token_id /\ owners[t] = Zero) => k.out.s.owners[t] = Zero

\* Id 1 is spent and has no owner (the state a mint followed by a burn of token 1
\* leaves), and the owner's next mint yields the fresh id next_token_id.
C14_Witness ==
    /\ IsERC721 /\ next_token_id > 1 /\ owners[1] = Zero
    /\ \E k \in Calls721 :
          /\ k.op = "mint" /\ k.out.res = OkTokenId(next_token_id)
          /\ k.out.s.owners[next_token_id] # Zero

\* The ERC-721 calls that move a token, and the caller's standing on token t.
IsTransfer721(k) ==
    k.op \in {"transfer_from", "safe_transfer_from", "safe_transfer_from_with_data"}
Authorized(c, t) ==
    /\ owners[t] # Zero
    /\ \/ c = owners[t]
       \/ operator_approvals[owners[t]][c]
       \/ token_approvals[t] = c

\* C15 (as amended): ERC-721: a transfer_from or burn changes owners[] only at its own
\* tokenId, only when it succeeds (to `to`, or to zero for burn), and only if at the
\* time of the call the caller is the owner A, or operator_approvals[A][caller] is
\* true, or token_approvals[tokenId] == caller. While the contract is not paused, a
\* transfer_from or burn of an existing token by any other caller fails with
\* InsufficientApproval{operator: caller, tokenId}, an authorized transfer_from with
\* from != owner fails with IncorrectOwner{from, tokenId, owner}, and one with
\* from == owner and to == zero fails with InvalidReceiver; while it is paused all of
\* them fail with EnforcedPause. None of the failures changes any state.
C15_TransferAuthorization ==
    IsERC721 =>
        \A k \in Calls721 :
            (IsTransfer721(k) \/ k.op = "burn") =>
                LET t == k.value
                    A == owners[t]
                    auth == Authorized(k.sender, t)
                IN /\ \A u \in U256 :
                         k.out.s.owners[u] # owners[u] =>
                             /\ u = t /\ auth /\ IsOk(k.out.res)
                             /\ k.out.s.owners[t] = IF k.op = "burn" THEN Zero ELSE k.to
                   /\ paused => k.out = Ret(EnforcedPause, self)
                   /\ (~paused /\ A # Zero /\ ~auth) =>
                         k.out = Ret(ERC721InsufficientApproval(k.sender, t), self)
                   /\ (~paused /\ auth /\ IsTransfer721(k) /\ k.from # A) =>
                         k.out = Ret(ERC721IncorrectOwner(k.from, t, A), self)
                   /\ (~paused /\ auth /\ IsTransfer721(k) /\ k.from = A /\ k.to = Zero) =>
                         k.out = Ret(ERC721InvalidReceiver(Zero), self)

\* C15 as stated: the three errors are returned whatever the pause flag is.
C15_Original ==
    IsERC721 =>
        \A k \in Calls721 :
            (IsTransfer721(k) \/ k.op = "burn") =>
                LET t == k.value
                    A == owners[t]
                    auth == Authorized(k.sender, t)
                IN /\ \A u \in U256 :
                         k.out.s.owners[u] # owners[u] =>
                             /\ u = t /\ auth
                             /\ k.out.s.owners[t] = IF k.op = "burn" THEN Zero ELSE k.to
                   /\ (A # Zero /\ ~auth) =>
                         k.out.res = ERC721InsufficientApproval(k.sender, t)
                   /\ (auth /\ IsTransfer721(k) /\ k.from # A) =>
                         k.out.res = ERC721IncorrectOwner(k.from, t, A)
                   /\ (auth /\ IsTransfer721(k) /\ k.from = A /\ k.to = Zero) =>
                         k.out.res = ERC721InvalidReceiver(Zero)

\* A running collection where the holder of a single-token approval can move the
\* token to a third address, while an unapproved account's burn of a token is refused.
C15_Witness ==
    /\ IsERC721 /\ ~paused
    /\ \E k \in Calls721 :
          /\ k.op = "transfer_from" /\ IsOk(k.out.res)
          /\ k.sender # owners[k.value]
          /\ token_approvals[k.value] = k.sender
          /\ ~operator_approvals[owners[k.value]][k.sender]
    /\ \E k \in Calls721 :
          /\ k.op = "burn" /\ owners[k.value] # Zero
          /\ k.out.res = ERC721InsufficientApproval(k.sender, k.value)

\* C16: ERC-721: after every successful transfer_from or burn of a token,
\* token_approvals[tokenId] is the zero address; hence in the state the call leaves,
\* an account that is neither the token's new owner nor an operator of the new owner
\* (whatever single-slot approval it held before) can neither transfer nor burn the
\* token.
C16_ApprovalCleared ==
    IsERC721 =>
        \A k \in Calls721 :
            ((IsTransfer721(k) \/ k.op = "burn") /\ IsOk(k.out.res)) =>
                LET t == k.value
                    after == k.out.s
                IN /\ after.token_approvals[t] = Zero
                   /\ \A x \in Account :
                         ( /\ x # after.owners[t]
                           /\ ~after.operator_approvals[after.owners[t]][x] ) =>
                             /\ \A f \in Address, to \in Address :
                                   ~IsOk(ERC721_transfer_from(after, x, f, to, t).res)
                             /\ ~IsOk(ERC721_burn(after, x, t).res)

\* A token carries a single-slot approval for an account that is neither its owner nor
\* an operator, and a transfer or burn that succeeds leaves that account without the
\* token.
C16_Witness ==
    /\ IsERC721
    /\ \E k \in Calls721 :
          /\ (IsTransfer721(k) \/ k.op = "burn") /\ IsOk(k.out.res)
          /\ token_approvals[k.value] \in Account
          /\ token_approvals[k.value] # owners[k.value]
          /\ ~operator_approvals[owners[k.value]][token_approvals[k.value]]
          /\ token_approvals[k.value] # k.out.s.owners[k.value]

\* C17: ERC-20: a successful transfer (or the transfer leg of transfer_from) of value
\* from `from` to `to` with from # to decreases balances[from] by exactly value,
\* increases balances[to] by exactly value and leaves total_supply, every other
\* balance, owner and paused (and, for transfer, all allowances) unchanged; with
\* from == to and value <= balances[from] a transfer on a running token succeeds and
\* leaves every balance unchanged.
C17_TransferFrame ==
    IsERC20 =>
        \A k \in Calls20 :
            (k.op \in {"transfer", "transfer_from"}) =>
                LET f == Source(k)
                    moved == [balances EXCEPT ![f] = balances[f] - k.value,
                                              ![k.to] = balances[k.to] + k.value]
                IN /\ (IsOk(k.out.res) /\ f # k.to) =>
                         /\ k.out.s.balances = moved
                         /\ k.out.s.total_supply = total_supply
                         /\ k.out.s.owner = owner
                         /\ k.out.s.paused = paused
                         /\ k.op = "transfer" => k.out.s.allowances = allowances
                   /\ ( /\ k.op = "transfer" /\ f = k.to /\ ~paused
                        /\ k.value <= balances[f] ) =>
                         k.out = Ret(OkTrue, self)

\* An approve, increase_allowance or decrease_allowance by o for spender sp.
ApprovalBy(k, o, sp) ==
    /\ k.op \in {"approve", "increase_allowance", "decrease_allowance"}
    /\ k.sender = o
    /\ k.to = sp

\* C18 (as amended): ERC-20: a successful transfer_from or burn_from of value by
\* spender S on owner O whose allowance a is finite leaves allowances[O][S] = a - value
\* and no other allowance changed; on a running token the same call with value > a
\* fails with InsufficientAllowance{spender: S, available: a, required: value} and
\* changes nothing, and on a paused token it fails with EnforcedPause. Hence, while O
\* makes no approve / increase_allowance / decrease_allowance for S, no call raises a
\* finite allowances[O][S], and each spend by S takes from O's balance no more than it
\* takes from the allowance.
C18_AllowanceSpend ==
    IsERC20 =>
        LET calls == Calls20 IN
        /\ \A k \in calls :
              Spends(k) =>
                  LET a == allowances[k.from][k.sender] IN
                  /\ paused => k.out = Ret(EnforcedPause, self)
                  /\ (a # UMax /\ IsOk(k.out.res)) =>
                        /\ k.value <= a
                        /\ k.out.s.allowances =
                              [allowances EXCEPT ![k.from][k.sender] = a - k.value]
                        /\ balances[k.from] - k.out.s.balances[k.from] <= k.value
                  /\ (a # UMax /\ k.value > a /\ ~paused) =>
                        k.out = Ret(InsufficientAllowance(k.sender, a, k.value), self)
        /\ \A o \in Address, sp \in Address :
              allowances[o][sp] # UMax =>
                  \A k \in calls :
                      \/ ApprovalBy(k, o, sp)
                      \/ k.out.s.allowances[o][sp] <= allowances[o][sp]

\* C18 as stated: the call with value > a fails with InsufficientAllowance whatever
\* the pause flag is.
C18_Original ==
    IsERC20 =>
        \A k \in Calls20 :
            Spends(k) =>
                LET a == allowances[k.from][k.sender] IN
                /\ (a # UMax /\ IsOk(k.out.res)) =>
                      k.out.s.allowances[k.from][k.sender] = a - k.value
                /\ (a # UMax /\ k.value > a) =>
                      k.out.res = InsufficientAllowance(k.sender, a, k.value)

\* A running token where a spender with allowance 2 can move 1 of another account's
\* balance, and is refused when it asks for more than the allowance.
C18_Witness ==
    /\ IsERC20 /\ ~paused
    /\ \E k \in Calls20 :
          /\ Spends(k) /\ IsOk(k.out.res) /\ k.sender # k.from
          /\ allowances[k.from][k.sender] = 2 /\ k.value = 1
          /\ k.out.s.allowances[k.from][k.sender] = 1
    /\ \E k \in Calls20 :
          /\ Spends(k) /\ k.value > allowances[k.from][k.sender]
          /\ k.out.res = InsufficientAllowance(k.sender, allowances[k.from][k.sender],
                                               k.value)

\* The token ids owned by address a.
TokensOf(a) == {t \in U256 : owners[t] = a}

\* C19: ERC-721: in every reachable state balances[a] is the number of token ids t
\* with owners[t] == a for every non-zero address a, and total_supply is the number
\* of token ids with a non-zero owner, which is the sum of all balances.
C19_BalancesCountTokens ==
    IsERC721 =>
        /\ \A a \in Account : balances[a] = Cardinality(TokensOf(a))
        /\ total_supply = Cardinality({t \in U256 : owners[t] # Zero})
        /\ total_supply = SumOver(balances, Address)

\* Two tokens exist and each account holds one of them.
C19_Witness ==
    /\ IsERC721 /\ total_supply = 2
    /\ \A a \in Account : Cardinality(TokensOf(a)) = 1

\* C20: ERC20Token and ERC721Token: initialize succeeds at most once: a successful
\* initialize finds initialized false and sets it, no call ever clears it, and once it
\* is true every initialize call, by any caller with any arguments, fails with
\* "Already initialized" and leaves every state variable (owner, paused,
\* total_supply, max_supply, next_token_id and the balances among them) unchanged.
C20_InitializeOnce ==
    (IsERC20 \/ IsERC721) =>
        \A k \in Calls :
            /\ initialized => k.out.s.initialized
            /\ (k.op = "initialize" /\ initialized) =>
                  k.out = Ret(ErrStr("Already initialized"), self)
            /\ (k.op = "initialize" /\ IsOk(k.out.res)) =>
                  ~initialized /\ k.out.s.initialized

\* A paused, initialized contract with supply, where an initialize naming another
\* owner is refused.
C20_Witness ==
    /\ (IsERC20 \/ IsERC721) /\ initialized /\ paused /\ total_supply > 0
    /\ \E k \in Calls :
          k.op = "initialize" /\ k.to \notin {Zero, owner} /\ Failed(k)

\* count successive mint(to) calls by sender, started in storage s: the ids they return
\* and the storage they leave, or the first failing call's result.
RECURSIVE MintTimes(_, _, _, _, _)
MintTimes(s, sender, to, n, token_ids) ==
    IF n = 0 THEN Ret(OkTokenIds(token_ids), s)
    ELSE LET m == ERC721_mint(s, sender, to)
         IN IF IsOk(m.res)
            THEN MintTimes(m.s, sender, to, n - 1, Append(token_ids, m.res.token_id))
            ELSE m

\* C21: ERC-721 mint_batch(to, count) called by the owner while not paused is
\* all-or-nothing: with max_supply > 0 and total_supply + count > max_supply it fails
\* with MaxSupplyReached and changes nothing; otherwise its returned ids and resulting
\* storage are exactly those of count successive successful mint(to) calls, and when
\* those mints cannot all succeed the batch fails and changes nothing.
C21_MintBatchAllOrNothing ==
    IsERC721 =>
        \A k \in Calls721 :
            (k.op = "mint_batch" /\ k.sender = owner /\ ~paused) =>
                IF max_supply > 0 /\ total_supply + k.value > max_supply
                THEN k.out = Ret(MaxSupplyReached(max_supply), self)
                ELSE LET e == MintTimes(self, k.sender, k.to, k.value, <<>>)
                     IN IF IsOk(e.res) THEN k.out = e
                        ELSE Failed(k) /\ k.out.s = self

\* Call k removes a token from its owner's enumeration: a successful burn, or a
\* successful transfer whose from and to differ.
Removes(k) ==
    /\ IsOk(k.out.res)
    /\ \/ k.op = "burn"
       \/ IsTransfer721(k) /\ k.from # k.to

\* Token t is stored in its owner's sequence at the position its index entry names.
StoredAtIndex(t) ==
    /\ owners[t] # Zero
    /\ owned_tokens_index[t] < balances[owners[t]]
    /\ owned_tokens[owners[t]][owned_tokens_index[t]] = t

\* The tokens in the first n slots of sequence seq.
Enumerated(seq, n) == {seq[i] : i \in {j \in U256 : j < n}}

\* What swap-and-pop does to the sequence of the owner a of token t, which call k
\* removes from position p of the N + 1 slots in use.
SwapAndPop(k, t, a, p, N) ==
    LET before == owned_tokens[a]
        after == k.out.s.owned_tokens[a]
    IN /\ k.out.s.balances[a] = N
       /\ p # N => after[p] = before[N]
       /\ \A i \in U256 : (i < N /\ i # p) => after[i] = before[i]
       /\ after[N] = 0
       /\ Enumerated(after, N) = Enumerated(before, N + 1) \ {t}

\* C22 as stated: after a burn, or a transfer with from # to, of token t stored at
\* position p of its owner's N + 1 slots, the owner has N slots, the formerly last
\* token sits at p when p # N, every other token keeps its position, slot N is zeroed,
\* the enumerated set is the old set minus t, and owned_tokens_index[t] is 0.
C22_Original ==
    IsERC721 =>
        \A k \in Calls721 :
            (Removes(k) /\ StoredAtIndex(k.value)) =>
                LET t == k.value
                    a == owners[t]
                IN /\ SwapAndPop(k, t, a, owned_tokens_index[t], balances[a] - 1)
                   /\ k.out.s.owned_tokens_index[t] = 0

\* C22: after a burn, or a transfer with from # to, of token t stored at position p of
\* its owner's N + 1 slots, the owner has N slots, the formerly last token sits at p
\* when p # N, every other token keeps its position, slot N is zeroed and the
\* enumerated set is the old set minus t. After a burn owned_tokens_index[t] is 0;
\* after a transfer it is the last position of the recipient's sequence, which holds t.
C22_SwapAndPop ==
    IsERC721 =>
        \A k \in Calls721 :
            (Removes(k) /\ StoredAtIndex(k.value)) =>
                LET t == k.value
                    a == owners[t]
                    last == k.out.s.balances[k.to] - 1
                IN /\ SwapAndPop(k, t, a, owned_tokens_index[t], balances[a] - 1)
                   /\ k.op = "burn" => k.out.s.owned_tokens_index[t] = 0
                   /\ k.op # "burn" =>
                          /\ k.out.s.owned_tokens_index[t] = last
                          /\ k.out.s.owned_tokens[k.to][last] = t

\* An account holds two tokens, and both its burn and its transfer to another account
\* of the token in its first slot succeed, moving the last token into that slot.
C22_Witness ==
    /\ IsERC721
    /\ \E a \in Account :
           /\ balances[a] = 2
           /\ StoredAtIndex(owned_tokens[a][0])
           /\ owned_tokens_index[owned_tokens[a][0]] = 0
           /\ \E k \in Calls721 :
                  /\ k.op = "burn" /\ k.sender = a /\ k.value = owned_tokens[a][0]
                  /\ Removes(k)
                  /\ k.out.s.owned_tokens[a][0] = owned_tokens[a][1]
           /\ \E k \in Calls721 :
                  /\ k.op = "transfer_from" /\ k.sender = a /\ k.value = owned_tokens[a][0]
                  /\ Removes(k)
                  /\ k.out.s.owned_tokens[k.to][0] = k.value

\* C23: ERC-721 approve(to, tokenId) fails with NonexistentToken when the token has no
\* owner; otherwise fails when to is the current owner; otherwise fails with
\* InvalidApprover unless the caller is the owner or an approved-for-all operator of the
\* owner, so the holder of only the token's single-slot approval cannot change it; every
\* other call succeeds, sets token_approvals[tokenId] to to and changes nothing else.
C23_Approve ==
    IsERC721 =>
        \A k \in Calls721 :
            k.op = "approve" =>
                LET t == k.value
                    a == owners[t]
                IN IF a = Zero
                   THEN k.out = Ret(ERC721NonexistentToken(t), self)
                   ELSE IF k.to = a
                   THEN Failed(k) /\ k.out.s = self
                   ELSE IF k.sender # a /\ ~operator_approvals[a][k.sender]
                   THEN k.out = Ret(ERC721InvalidApprover(k.sender), self)
                   ELSE k.out = Ret(Ok, [self EXCEPT !.token_approvals[t] = k.to])

\* A token approved to an account that is neither its owner nor an operator: that
\* account's approve fails with InvalidApprover, while the owner's approve succeeds.
C23_Witness ==
    /\ IsERC721
    /\ \E t \in U256 : \E c \in Account :
           /\ owners[t] # Zero
           /\ token_approvals[t] = c
           /\ c # owners[t]
           /\ ~operator_approvals[owners[t]][c]
           /\ \E k \in Calls721 :
                  /\ k.op = "approve" /\ k.sender = c /\ k.value = t /\ k.to = Zero
                  /\ k.out.res = ERC721InvalidApprover(c)
           /\ \E k \in Calls721 :
                  /\ k.op = "approve" /\ k.sender = owners[t] /\ k.value = t
                  /\ k.to = Zero
                  /\ IsOk(k.out.res)

\* The results of every owner-gated entry point called by c on storage s.
GatedResults(s, c) ==
    IF IsERC20
    THEN {ERC20_mint(s, c, to, v).res : to \in Address, v \in U256}
         \cup {ERC20_pause(s, c).res, ERC20_unpause(s, c).res,
               ERC20_renounce_ownership(s, c).res}
         \cup {ERC20_transfer_ownership(s, c, n).res : n \in Address}
    ELSE {ERC721_mint(s, c, to).res : to \in Address}
         \cup {ERC721_mint_batch(s, c, to, n).res : to \in Address, n \in U256}
         \cup {ERC721_set_base_uri(s, c, u).res : u \in BaseUris}
         \cup {ERC721_pause(s, c).res, ERC721_unpause(s, c).res,
               ERC721_renounce_ownership(s, c).res}
         \cup {ERC721_transfer_ownership(s, c, n).res : n \in Address}

\* C24: the owner field changes only through the initializing call or a successful
\* transfer_ownership or renounce_ownership made by the current owner;
\* transfer_ownership(zero) fails and changes nothing; and after a successful
\* transfer_ownership(n) to another account the owner is n, every owner-gated call of
\* the previous owner fails with Unauthorized and none of n's does.
C24_OwnerChanges ==
    (IsERC20 \/ IsERC721) =>
        \A k \in Calls :
            /\ k.out.s.owner # owner =>
                   \/ k.op = "initialize" /\ ~initialized /\ IsOk(k.out.res)
                   \/ /\ k.op \in {"transfer_ownership", "renounce_ownership"}
                      /\ k.sender = owner
                      /\ IsOk(k.out.res)
            /\ (k.op = "transfer_ownership" /\ k.to = Zero) =>
                   Failed(k) /\ k.out.s = self
            /\ (k.op = "transfer_ownership" /\ IsOk(k.out.res) /\ k.to # k.sender) =>
                   /\ k.sender = owner
                   /\ k.out.s.owner = k.to
                   /\ GatedResults(k.out.s, k.sender) = {UnauthorizedAccount(k.sender)}
                   /\ UnauthorizedAccount(k.to) \notin GatedResults(k.out.s, k.to)

\* An initialized contract whose owner can hand ownership to another account, while
\* its transfer_ownership(zero) and the other account's transfer_ownership fail.
C24_Witness ==
    /\ IsERC20 \/ IsERC721
    /\ initialized
    /\ owner # Zero
    /\ \E k \in Calls :
           /\ k.op = "transfer_ownership" /\ k.sender = owner /\ k.to \notin {Zero, owner}
           /\ k.out.s.owner = k.to
           /\ GatedResults(k.out.s, owner) = {UnauthorizedAccount(owner)}
    /\ \E k \in Calls :
           /\ k.op = "transfer_ownership" /\ k.sender = owner /\ k.to = Zero
           /\ Failed(k)
    /\ \E k \in Calls :
           /\ k.op = "transfer_ownership" /\ k.sender # owner
           /\ k.out.res = UnauthorizedAccount(k.sender)

\* C25: SuperPositionNFT.initialize(art_contract) is a one-shot latch: after a
\* successful initialize call, for every argument including the zero address, every
\* later initialize call fails with AlreadyInitialized and art_contract_address keeps
\* the value the successful call set.
C25_InitializeLatch ==
    contract = "SuperPositionNFT" =>
        \A k \in Calls :
            (k.op = "initialize" /\ IsOk(k.out.res)) =>
                /\ k.out.s.art_contract_address = k.to
                /\ \A later \in Address :
                       SuperPositionNFT_initialize(k.out.s, later) =
                           Ret(AlreadyInitialized, k.out.s)

\* C26: a successful ERC-721 transfer with from == to leaves owners, balances,
\* total_supply and the tokens enumerated for that owner (the slots at positions below
\* balance and their inverse index entries) unchanged; only the token's single-slot
\* approval is cleared.
C26_SelfTransferFrame ==
    IsERC721 =>
        \A k \in Calls721 :
            (k.op = "transfer_from" /\ k.from = k.to /\ IsOk(k.out.res)) =>
                LET a == k.from
                    after == k.out.s
                IN /\ after.owners = owners
                   /\ after.balances = balances
                   /\ after.total_supply = total_supply
                   /\ after.token_approvals = [token_approvals EXCEPT ![k.value] = Zero]
                   /\ Enumerated(after.owned_tokens[a], balances[a]) =
                          Enumerated(owned_tokens[a], balances[a])
                   /\ \A i \in U256 :
                          i < balances[a] =>
                              after.owned_tokens_index[after.owned_tokens[a][i]] = i

\* The indices token_by_index accepts on the current storage.
ValidIndices == {i \in U256 : IsOk(ERC721_token_by_index(self, i).res)}

\* C27: ERC-721 token_by_index(i) succeeds exactly when i < total_supply, and in every
\* reachable state each id it returns is an existing token (non-zero owner), distinct
\* indices return distinct tokens, and the returned ids cover all existing tokens.
C27_TokenByIndex ==
    IsERC721 =>
        /\ ValidIndices = {i \in U256 : i < total_supply}
        /\ \A i \in ValidIndices : owners[ERC721_token_by_index(self, i).token_id] # Zero
        /\ \A i, j \in ValidIndices :
               ERC721_token_by_index(self, i).token_id =
                   ERC721_token_by_index(self, j).token_id => i = j
        /\ {t \in U256 : owners[t] # Zero} =
               {ERC721_token_by_index(self, i).token_id : i \in ValidIndices}

\* C28: a renounce_ownership that succeeds while paused leaves the contract paused
\* with no owner; from a paused contract with no owner every call leaves it paused with
\* no owner, and every ERC-20 transfer, transfer_from, burn, burn_from and every ERC-721
\* transfer, burn, mint and mint_batch fails; and a call changes paused only in a state
\* whose owner is non-zero.
C28_PausedForever ==
    (IsERC20 \/ IsERC721) =>
        \A k \in Calls :
            /\ (k.op = "renounce_ownership" /\ IsOk(k.out.res) /\ paused) =>
                   k.out.s.paused /\ k.out.s.owner = Zero
            /\ (paused /\ owner = Zero) =>
                   /\ k.out.s.paused
                   /\ k.out.s.owner = Zero
                   /\ (GatedFirst(k) \/ GatedMint(k)) => Failed(k)
            /\ k.out.s.paused # paused => owner # Zero

\* A paused collection with a token and no owner: every unpause fails with
\* Unauthorized and the token holder's transfer fails with EnforcedPause.
C28_Witness ==
    /\ IsERC721 /\ paused /\ owner = Zero /\ total_supply > 0
    /\ \A k \in Calls :
           k.op = "unpause" => k.out = Ret(UnauthorizedAccount(k.sender), self)
    /\ \E k \in Calls :
           /\ k.op = "transfer_from" /\ owners[k.value] = k.sender /\ k.from = k.sender
           /\ k.to \notin {Zero, k.sender}
           /\ k.out = Ret(EnforcedPause, self)

\* C29: the zero address never holds anything. In every reachable state of the ERC-20
\* ledger balances[zero], allowances[zero][s] and allowances[o][zero] are 0 for all o
\* and s; in every reachable state of the ERC-721 ledger balances[zero] is 0,
\* operator_approvals[o][zero] is false and operator_approvals[a][a] is false.
C29_ZeroHoldsNothing ==
    /\ IsERC20 =>
           /\ balances[Zero] = 0
           /\ \A a \in Address : allowances[Zero][a] = 0 /\ allowances[a][Zero] = 0
    /\ IsERC721 =>
           /\ balances[Zero] = 0
           /\ \A a \in Address :
                  ~operator_approvals[a][Zero] /\ ~operator_approvals[a][a]

\* A token holder with an approved operator, whose set_approval_for_all for the zero
\* address and for itself are rejected, as is the transfer of its token to zero.
C29_Witness ==
    /\ IsERC721
    /\ \E a, b \in Account :
           /\ operator_approvals[a][b]
           /\ balances[a] > 0
           /\ \E k \in Calls721 :
                  /\ k.op = "set_approval_for_all" /\ k.sender = a /\ k.to = Zero
                  /\ k.value = 1
                  /\ k.out = Ret(ERC721InvalidOperator(Zero), self)
           /\ \E k \in Calls721 :
                  /\ k.op = "set_approval_for_all" /\ k.sender = a /\ k.to = a
                  /\ k.value = 1
                  /\ Failed(k)
           /\ \E k \in Calls721 :
                  /\ k.op = "transfer_from" /\ k.sender = a /\ k.from = a /\ k.to = Zero
                  /\ owners[k.value] = a
                  /\ k.out.res = ERC721InvalidReceiver(Zero)

\* C30: in every reachable state of the ERC-721 ledger a token id with no owner has
\* token_approvals[id] == zero, and for every existing token token_approvals[id]
\* differs from owners[id]: the approved spender is never the current owner.
C30_ApprovalNeverOwner ==
    IsERC721 =>
        \A t \in U256 :
            /\ owners[t] = Zero => token_approvals[t] = Zero
            /\ owners[t] # Zero => token_approvals[t] # owners[t]

\* One token carries an approval for another account, whose owner's approve to itself
\* is rejected, and an id already spent has no owner and no approval.
C30_Witness ==
    /\ IsERC721
    /\ \E t \in U256 :
           /\ owners[t] # Zero
           /\ token_approvals[t] \in Account
           /\ \E k \in Calls721 :
                  /\ k.op = "approve" /\ k.value = t
                  /\ k.sender = owners[t] /\ k.to = owners[t]
                  /\ Failed(k)
    /\ \E t \in U256 :
           t >= 1 /\ t < next_token_id /\ owners[t] = Zero /\ token_approvals[t] = Zero

\* C31: when max_supply > 0 the number of token ids ever issued never exceeds
\* max_supply: next_token_id - 1 <= max_supply in every reachable state of the ERC-721
\* ledger, including executions that interleave burns with mints.
C31_IssuedWithinMaxSupply ==
    (IsERC721 /\ initialized /\ max_supply > 0) => next_token_id - 1 <= max_supply

====
